---------------------------- MODULE Spec2Model ----------------------------
(***************************************************************************)
(* recmeet: the capture-and-validate pipeline.                             *)
(*                                                                         *)
(* Part I models the command-line program (src/recmeet.py): main, the      *)
(* dual capture record_dual_audio with its nested _stop_proc, and the      *)
(* single capture record_audio, together with the capture processes and    *)
(* the operator's interrupt (KeyboardInterrupt in the main thread).        *)
(*                                                                         *)
(* Part II models the tray applet (src/recmeet_tray.py): the GTK main      *)
(* thread with its menu handlers and idle callbacks, and the worker        *)
(* threads started by _on_record.                                          *)
(*                                                                         *)
(* Part III models create_output_dir, Part IV validate_audio, Part V the   *)
(* resolution of the mic and monitor source (detect_sources,               *)
(* _resolve_monitor_source, main and the tray); each has a specification   *)
(* of its own that draws the inputs of the function in Init.  Part VI      *)
(* models the configuration of one tray run: the dictionary self.config,   *)
(* the file behind it, the reads of _recording_pipeline and the menu       *)
(* callbacks that write to it.                                             *)
(***************************************************************************)
EXTENDS Integers, Sequences, FiniteSets

(***************************************************************************)
(* Bounds of the model.                                                    *)
(***************************************************************************)
\* operator interrupts (Ctrl+C) delivered during one capture
MaxInterrupts == 2
\* pipeline runs the tray starts in one behaviour
MaxRuns == 2
\* runs that create their session directory within the same minute
MaxCallers == 2
\* directories missing from an otherwise full run of names, at most
MaxHoles == 2
\* whole seconds of audio in a capture file, at most
MaxSeconds == 2
\* sources pactl lists, at most
MaxSources == 3
\* edits of the configuration (menu selections, edits of the file) during
\* one run
MaxEdits == 2

Procs == {"mic", "monitor"}

\* the kinds of endpoint a source name can denote: a name ending in
\* ".monitor" is a monitor-kind endpoint (detect_sources, lines 99-117), any
\* other an input
Kinds == {"input", "monitor"}

\* ProcessHandle.state; "none" is a process that was never spawned
ProcStates == {"none", "Running", "StopRequested", "Stopped", "Killed"}
Terminal == {"Stopped", "Killed"}
Alive == {"Running", "StopRequested"}

VARIABLES
  \* ---- Part I: the command-line program ----
  pc,          \* where the main thread is
  dual_mode,   \* main: monitor_source is not None
  bins,        \* the recorder binaries `which` finds
  proc,        \* state of the capture process of each stream
  ignores,     \* the streams whose recorder ignores SIGINT
  trigger,     \* what ended the capture's wait: "none", "interrupt", "early_exit"
  interrupts,  \* KeyboardInterrupts delivered so far
  intrAt,      \* the pc at which the last KeyboardInterrupt was raised ("none")
  graces,      \* grace periods (proc.wait(timeout=5)) that ran out
  audio,       \* what audio.wav holds: "none", "mixed", "mic_copy", "capture"
  mixerRan,    \* ffmpeg was invoked
  transcript,  \* transcript.txt was written
  summary,     \* summary.md was written
  no_summary,  \* args.no_summary
  validated,   \* how validate_audio ended for each capture file ("none": not called)
  mixResult,   \* how the ffmpeg run of mix_audio ended ("none": not called)
  transcribed, \* how transcribe_audio ended ("none": not called)
  summarized,  \* how summarize_transcript ended ("none": not called)
  kind,        \* the kind of the endpoint each stream records: "input", "monitor"
  recorder,    \* the binary each stream's process was spawned with ("": none)
  \* ---- Part II: the tray applet ----
  gtk,           \* the GTK main thread: "main" (in Gtk.main), "joining"
                 \* (blocked in worker_thread.join), "quit" (application left)
  state,         \* RecmeetTray.state: "idle", "recording", "processing"
  stop_event,    \* RecmeetTray.stop_event: the run whose Event it is, 0 = None
  worker_thread, \* RecmeetTray.worker_thread: the run whose thread it is, 0 = None
  evset,         \* per run: its threading.Event is set
  idleQ,         \* callbacks queued with GLib.idle_add, oldest first
  nruns,         \* worker threads started so far
  wpc,           \* per run: where its worker thread is
  wev,           \* per run: the Event handed to run_pipeline (0 = not yet)
  wproc,         \* per run: state of its capture processes
  stopSeen,      \* the tray state in which the last Stop request that was
                 \* not honoured arrived ("none": there was none)
  \* ---- Part III: create_output_dir ----
  dirs,          \* the directories of this minute that exist under base_dir:
                 \* 1 is the bare timestamp, i the one with suffix _i
  spc,           \* per caller: where its create_output_dir is
  out_dir,       \* per caller: the local out_dir (0: not yet chosen)
  before,        \* per caller: dirs as they were when it was called
  \* ---- Part IV: validate_audio ----
  vfile,         \* the file validate_audio is called on, and what wave.open
                 \* and ffprobe make of it
  vpc,           \* where validate_audio is
  vtried,        \* the stages attempted so far, in order
  vres,          \* how validate_audio ended (kind "none": it has not)
  \* ---- Part V: the resolution of the sources ----
  rin,           \* what the run is given: the front end, its arguments or
                 \* configuration, and the sources pactl lists
  rpc,           \* where the resolution is
  detected,      \* the result of detect_sources (called FALSE: None)
  mic_source,    \* the local mic_source (<<>>: None or "")
  monitor_source, \* the local monitor_source (<<>>: None or "")
  \* ---- Part VI: the configuration of a tray run ----
  cfg_file,      \* the settings config.yaml holds
  config,        \* the dictionary self.config refers to
  snapshot,      \* what load_config returned at the start of the run
  params,        \* the parameters the run has taken so far
  cpc,           \* where _recording_pipeline is: 0 before load_config,
                 \* then the number of the next setting it reads
  mpc,           \* the menu callback under way: "none", or "save"
  edits,         \* edits made so far
  late           \* the settings a menu callback stored after load_config

cliVars == <<pc, dual_mode, bins, proc, ignores, trigger, interrupts, intrAt,
             graces, audio, mixerRan,
             transcript, summary, no_summary, validated, mixResult, transcribed, summarized, kind, recorder>>

trayVars == <<gtk, state, stop_event, worker_thread, evset, idleQ, nruns,
              wpc, wev, wproc, stopSeen>>

sessVars == <<dirs, spc, out_dir, before>>

valVars == <<vfile, vpc, vtried, vres>>

resVars == <<rin, rpc, detected, mic_source, monitor_source>>

cfgVars == <<cfg_file, config, snapshot, params, cpc, mpc, edits, late>>

auxVars == <<sessVars, valVars, resVars, cfgVars>>

vars == <<cliVars, trayVars, auxVars>>

RunIds == 1 .. MaxRuns

\* the runs that call create_output_dir within the same minute
Callers == 1 .. MaxCallers

-----------------------------------------------------------------------------
(***************************************************************************)
(* Part I.  src/recmeet.py                                                 *)
(***************************************************************************)

\* find_recorder: prefer pw-record over parecord; "" when neither is found
find_recorder(b) ==
  IF "pw-record" \in b THEN "pw-record"
  ELSE IF "parecord" \in b THEN "parecord"
  ELSE ""

\* line 209: monitor_cmd = _build_record_cmd(monitor_source, ..., "parecord");
\* the monitor stream's recorder is the literal "parecord", whatever
\* find_recorder returned
MonitorRecorder == "parecord"

\* pcs inside record_dual_audio, from the first Popen to the end of finally
DualStopPcs == {"mic_sigint", "mic_wait", "mic_kill",
                "monitor_sigint", "monitor_wait", "monitor_kill"}
DualPcs == {"spawn_mic", "spawn_monitor", "poll", "join_timer"} \cup DualStopPcs
\* pcs inside record_audio
SinglePcs == {"s_spawn", "s_wait", "s_sigint", "s_wait2", "s_finally"}
\* pcs of main after the capture returned
AfterCapturePcs == {"validate_mic", "validate_monitor", "mix", "validate_single",
                    "transcribe", "summarize", "done", "exit1", "crash"}

\* the tray applet is not part of a command-line run
TrayOff ==
  /\ gtk = "off"
  /\ state = "idle"
  /\ stop_event = 0
  /\ worker_thread = 0
  /\ evset = [r \in RunIds |-> FALSE]
  /\ idleQ = <<>>
  /\ nruns = 0
  /\ wpc = [r \in RunIds |-> "unstarted"]
  /\ wev = [r \in RunIds |-> 0]
  /\ wproc = [r \in RunIds |-> [p \in Procs |-> "none"]]
  /\ stopSeen = "none"

\* no create_output_dir under way
SessOff ==
  /\ dirs = {}
  /\ spc = [c \in Callers |-> "off"]
  /\ out_dir = [c \in Callers |-> 0]
  /\ before = [c \in Callers |-> {}]

\* validate_audio has not ended
NotEnded == [kind |-> "none", msg |-> "", d |-> <<0, 1>>]

\* no validate_audio under way
ValOff ==
  /\ vfile = "none"
  /\ vpc = "off"
  /\ vtried = <<>>
  /\ vres = NotEnded

\* detect_sources has not been called
NotDetected == [called |-> FALSE, mic |-> <<>>, monitor |-> <<>>, all_sources |-> <<>>]

\* no resolution of sources under way
ResOff ==
  /\ rin = "none"
  /\ rpc = "off"
  /\ detected = NotDetected
  /\ mic_source = <<>>
  /\ monitor_source = <<>>

\* the settings of a run: the keys _recording_pipeline reads, in the order
\* of its reads (lines 226-229, 246-247, 250, 263)
ReadOrder == <<"mic_source", "monitor_source", "mic_only", "device_pattern",
               "api_key", "no_summary", "output_dir", "model">>

Keys == {ReadOrder[i] : i \in 1 .. Len(ReadOrder)}

\* the values of a setting: the one the file holds when the applet starts,
\* and another one
Vals == {"old", "new"}

\* no run reads the configuration
CfgOff ==
  /\ cfg_file = [k \in Keys |-> "old"]
  /\ config = [k \in Keys |-> "old"]
  /\ snapshot = [k \in Keys |-> "old"]
  /\ params = [k \in Keys |-> "unread"]
  /\ cpc = -1
  /\ mpc = "none"
  /\ edits = 0
  /\ late = {}

\* the parts of the model a run of main or of the tray does not use
AuxOff == SessOff /\ ValOff /\ ResOff /\ CfgOff

InitCli ==
  /\ pc = "start"
  /\ dual_mode \in BOOLEAN
  /\ bins \in SUBSET {"pw-record", "parecord"}
  /\ proc = [p \in Procs |-> "none"]
  /\ ignores \in SUBSET Procs
  /\ trigger = "none"
  /\ interrupts = 0
  /\ intrAt = "none"
  /\ graces = 0
  /\ audio = "none"
  /\ mixerRan = FALSE
  /\ transcript = FALSE
  /\ summary = FALSE
  /\ no_summary \in BOOLEAN
  /\ validated = [p \in Procs |-> "none"]
  /\ mixResult = "none"
  /\ transcribed = "none"
  /\ summarized = "none"
  /\ kind \in [Procs -> Kinds]
  /\ recorder = [p \in Procs |-> ""]
  /\ TrayOff
  /\ AuxOff

(***************************************************************************)
(* The capture processes (the environment of the program).                 *)
(***************************************************************************)

\* A recorder exits on its own while recording (device lost, write error,
\* a SIGINT the terminal delivered to the whole foreground process group).
ProcExitsEarly(p) ==
  /\ proc[p] = "Running"
  /\ proc' = [proc EXCEPT ![p] = "Stopped"]
  /\ UNCHANGED <<auxVars, trayVars, pc, dual_mode, bins, ignores, trigger, interrupts, intrAt,
                 graces, audio, mixerRan, transcript, summary, no_summary, validated, mixResult, transcribed, summarized, kind, recorder>>

\* A recorder that does not ignore SIGINT finalises its file and exits.
ProcObeysSigint(p) ==
  /\ proc[p] = "StopRequested"
  /\ p \notin ignores
  /\ proc' = [proc EXCEPT ![p] = "Stopped"]
  /\ UNCHANGED <<auxVars, trayVars, pc, dual_mode, bins, ignores, trigger, interrupts, intrAt,
                 graces, audio, mixerRan, transcript, summary, no_summary, validated, mixResult, transcribed, summarized, kind, recorder>>

(***************************************************************************)
(* record_dual_audio                                                       *)
(***************************************************************************)

\* lines 203-209: find_recorder, then the parecord check for the monitor
DualPreflight ==
  /\ pc = "start"
  /\ dual_mode
  /\ pc' = IF find_recorder(bins) = "" \/ MonitorRecorder \notin bins
           THEN "exit1" ELSE "spawn_mic"
  /\ UNCHANGED <<auxVars, trayVars, dual_mode, bins, proc, ignores, trigger, interrupts, intrAt,
                 graces, audio, mixerRan, transcript, summary, no_summary, validated, mixResult, transcribed, summarized, kind, recorder>>

\* line 215: mic_proc = subprocess.Popen(...); Popen raises OSError when the
\* spawn fails, and nothing in record_dual_audio catches it
SpawnMic ==
  /\ pc = "spawn_mic"
  /\ \E ok \in BOOLEAN :
       IF ok THEN /\ proc' = [proc EXCEPT !["mic"] = "Running"]
                  /\ recorder' = [recorder EXCEPT !["mic"] = find_recorder(bins)]
                  /\ pc' = "spawn_monitor"
             ELSE /\ proc' = proc
                  /\ recorder' = recorder
                  /\ pc' = "raised"
  /\ UNCHANGED <<auxVars, trayVars, dual_mode, bins, ignores, trigger, interrupts, intrAt,
                 graces, audio, mixerRan, transcript, summary, no_summary, validated, mixResult, transcribed, summarized, kind>>

\* line 216 (and 218-220, the elapsed-time thread): the monitor's Popen runs
\* outside any try, with mic_proc already started; a Popen of a binary that
\* is not installed raises FileNotFoundError
SpawnMonitor ==
  /\ pc = "spawn_monitor"
  /\ \E ok \in (IF MonitorRecorder \in bins THEN BOOLEAN ELSE {FALSE}) :
       IF ok THEN /\ proc' = [proc EXCEPT !["monitor"] = "Running"]
                  /\ recorder' = [recorder EXCEPT !["monitor"] = MonitorRecorder]
                  /\ pc' = "poll"
             ELSE /\ proc' = proc
                  /\ recorder' = recorder
                  /\ pc' = "raised"
  /\ UNCHANGED <<auxVars, trayVars, dual_mode, bins, ignores, trigger, interrupts, intrAt,
                 graces, audio, mixerRan, transcript, summary, no_summary, validated, mixResult, transcribed, summarized, kind>>

\* lines 233-234: the loop ends when poll() of either process is not None
PollSeesExit ==
  /\ pc = "poll"
  /\ \E p \in Procs : proc[p] \in Terminal
  /\ pc' = "mic_sigint"
  /\ trigger' = "early_exit"
  /\ UNCHANGED <<auxVars, trayVars, dual_mode, bins, proc, ignores, interrupts, intrAt,
                 graces, audio, mixerRan, transcript, summary, no_summary, validated, mixResult, transcribed, summarized, kind, recorder>>

\* the statement after _stop_proc(p) in the finally block (lines 238-240)
AfterStop(p) == IF p = "mic" THEN "monitor_sigint" ELSE "join_timer"

StopPc(p, step) == IF p = "mic" THEN "mic_" \o step ELSE "monitor_" \o step

\* StopSigint that signals the process whatever its state
StopSigint_Always(p) ==
  /\ pc = StopPc(p, "sigint")
  /\ proc' = [proc EXCEPT ![p] = "StopRequested"]
  /\ pc' = StopPc(p, "wait")
  /\ UNCHANGED <<auxVars, trayVars, dual_mode, bins, ignores, trigger, interrupts, intrAt,
                 graces, audio, mixerRan, transcript, summary, no_summary, validated, mixResult, transcribed, summarized, kind, recorder>>

\* line 225: proc.send_signal(SIGINT); a no-op on a process that has exited
StopSigint(p) ==
  /\ pc = StopPc(p, "sigint")
  /\ proc' = IF proc[p] = "Running" THEN [proc EXCEPT ![p] = "StopRequested"]
             ELSE proc
  /\ pc' = StopPc(p, "wait")
  /\ UNCHANGED <<auxVars, trayVars, dual_mode, bins, ignores, trigger, interrupts, intrAt,
                 graces, audio, mixerRan, transcript, summary, no_summary, validated, mixResult, transcribed, summarized, kind, recorder>>

\* line 226: proc.wait(timeout=5) returns, the process has exited
StopWaitExited(p) ==
  /\ pc = StopPc(p, "wait")
  /\ proc[p] \in Terminal
  /\ pc' = AfterStop(p)
  /\ UNCHANGED <<auxVars, trayVars, dual_mode, bins, proc, ignores, trigger, interrupts, intrAt,
                 graces, audio, mixerRan, transcript, summary, no_summary, validated, mixResult, transcribed, summarized, kind, recorder>>

\* lines 226-227: the grace period runs out, wait raises TimeoutExpired
StopWaitTimeout(p) ==
  /\ pc = StopPc(p, "wait")
  /\ proc[p] \in Alive
  /\ graces' = graces + 1
  /\ pc' = StopPc(p, "kill")
  /\ UNCHANGED <<auxVars, trayVars, dual_mode, bins, proc, ignores, trigger, interrupts, intrAt,
                 audio, mixerRan, transcript, summary, no_summary, validated, mixResult, transcribed, summarized, kind, recorder>>

\* StopKill with the kill left out: after the timeout the stop just goes on
StopKill_NoKill(p) ==
  /\ pc = StopPc(p, "kill")
  /\ pc' = AfterStop(p)
  /\ UNCHANGED <<auxVars, trayVars, dual_mode, bins, proc, ignores, trigger, interrupts, intrAt,
                 graces, audio, mixerRan, transcript, summary, no_summary, validated, mixResult, transcribed, summarized, kind, recorder>>

\* lines 228-229: proc.kill(); proc.wait()
StopKill(p) ==
  /\ pc = StopPc(p, "kill")
  /\ proc' = IF proc[p] \in Alive THEN [proc EXCEPT ![p] = "Killed"] ELSE proc
  /\ pc' = AfterStop(p)
  /\ UNCHANGED <<auxVars, trayVars, dual_mode, bins, ignores, trigger, interrupts, intrAt,
                 graces, audio, mixerRan, transcript, summary, no_summary, validated, mixResult, transcribed, summarized, kind, recorder>>

\* lines 240-243: stop_event.set(); timer_thread.join(timeout=2); return
JoinTimer ==
  /\ pc = "join_timer"
  /\ pc' = "validate_mic"
  /\ UNCHANGED <<auxVars, trayVars, dual_mode, bins, proc, ignores, trigger, interrupts, intrAt,
                 graces, audio, mixerRan, transcript, summary, no_summary, validated, mixResult, transcribed, summarized, kind, recorder>>

(***************************************************************************)
(* record_audio (mic-only capture)                                         *)
(***************************************************************************)

\* line 169: find_recorder exits the program when no recorder is installed
SinglePreflight ==
  /\ pc = "start"
  /\ ~dual_mode
  /\ pc' = IF find_recorder(bins) = "" THEN "exit1" ELSE "s_spawn"
  /\ UNCHANGED <<auxVars, trayVars, dual_mode, bins, proc, ignores, trigger, interrupts, intrAt,
                 graces, audio, mixerRan, transcript, summary, no_summary, validated, mixResult, transcribed, summarized, kind, recorder>>

\* lines 176-180: proc = subprocess.Popen(...), then the elapsed-time thread
SingleSpawn ==
  /\ pc = "s_spawn"
  /\ \E ok \in BOOLEAN :
       IF ok THEN /\ proc' = [proc EXCEPT !["mic"] = "Running"]
                  /\ recorder' = [recorder EXCEPT !["mic"] = find_recorder(bins)]
                  /\ pc' = "s_wait"
             ELSE /\ proc' = proc
                  /\ recorder' = recorder
                  /\ pc' = "raised"
  /\ UNCHANGED <<auxVars, trayVars, dual_mode, bins, ignores, trigger, interrupts, intrAt,
                 graces, audio, mixerRan, transcript, summary, no_summary, validated, mixResult, transcribed, summarized, kind>>

\* line 183: proc.wait() returns because the recorder exited on its own
SingleWaitExited ==
  /\ pc = "s_wait"
  /\ proc["mic"] \in Terminal
  /\ pc' = "s_finally"
  /\ trigger' = "early_exit"
  /\ UNCHANGED <<auxVars, trayVars, dual_mode, bins, proc, ignores, interrupts, intrAt,
                 graces, audio, mixerRan, transcript, summary, no_summary, validated, mixResult, transcribed, summarized, kind, recorder>>

\* line 185: proc.send_signal(signal.SIGINT) in the except clause
SingleSigint ==
  /\ pc = "s_sigint"
  /\ proc' = IF proc["mic"] = "Running"
             THEN [proc EXCEPT !["mic"] = "StopRequested"] ELSE proc
  /\ pc' = "s_wait2"
  /\ UNCHANGED <<auxVars, trayVars, dual_mode, bins, ignores, trigger, interrupts, intrAt,
                 graces, audio, mixerRan, transcript, summary, no_summary, validated, mixResult, transcribed, summarized, kind, recorder>>

\* line 186: proc.wait() with no timeout: returns only once the recorder exits
SingleWait2Exited ==
  /\ pc = "s_wait2"
  /\ proc["mic"] \in Terminal
  /\ pc' = "s_finally"
  /\ UNCHANGED <<auxVars, trayVars, dual_mode, bins, proc, ignores, trigger, interrupts, intrAt,
                 graces, audio, mixerRan, transcript, summary, no_summary, validated, mixResult, transcribed, summarized, kind, recorder>>

\* lines 187-192: finally: stop_event.set(); timer_thread.join(); return
SingleFinally ==
  /\ pc = "s_finally"
  /\ pc' = "validate_single"
  /\ audio' = "capture"
  /\ UNCHANGED <<auxVars, trayVars, dual_mode, bins, proc, ignores, trigger, interrupts, intrAt,
                 graces, mixerRan, transcript, summary, no_summary, validated, mixResult, transcribed, summarized, kind, recorder>>

(***************************************************************************)
(* The operator's interrupt: Python raises KeyboardInterrupt in the main   *)
(* thread at whatever statement it is executing.                           *)
(***************************************************************************)

\* Where control goes when KeyboardInterrupt is raised at pc `at`: the try of
\* record_dual_audio (lines 231-236) and of record_audio (182-186) catch it
\* only while their body runs; raised in a finally or except clause, or
\* before the try, it propagates out of the function and ends the program.
InterruptTarget(at) ==
  IF at = "poll" THEN "mic_sigint"
  ELSE IF at = "s_wait" THEN "s_sigint"
  ELSE "raised"

Interrupt ==
  /\ interrupts < MaxInterrupts
  /\ pc \in DualPcs \cup SinglePcs
  /\ interrupts' = interrupts + 1
  /\ intrAt' = pc
  /\ pc' = InterruptTarget(pc)
  /\ trigger' = IF pc \in {"poll", "s_wait"} THEN "interrupt" ELSE trigger
  /\ UNCHANGED <<auxVars, trayVars, dual_mode, bins, proc, ignores,
                 graces, audio, mixerRan, transcript, summary, no_summary, validated, mixResult, transcribed, summarized, kind, recorder>>

(***************************************************************************)
(* main, after the capture (lines 510-559)                                 *)
(***************************************************************************)

\* how a call of validate_audio (lines 278-329) ends: it returns a duration,
\* it raises AudioValidationError (empty, too short, no data), or wave.open
\* raises EOFError on a header that ends early, which `except wave.Error`
\* (line 301) does not catch
ValidateOutcomes == {"duration", "AudioValidationError", "EOFError"}

\* where main goes when validate_audio ends as `out`: on with `ok`, to
\* `handler` when the except AudioValidationError clause runs, and out of
\* main with a traceback on any other exception
AfterValidate(out, ok, handler) ==
  CASE out = "duration" -> ok
    [] out = "AudioValidationError" -> handler
    [] OTHER -> "crash"

\* ValidateMic with the except clause of lines 512-514 falling through
ValidateMic_NotFatal ==
  /\ pc = "validate_mic"
  /\ \E out \in ValidateOutcomes :
       /\ validated' = [validated EXCEPT !["mic"] = out]
       /\ pc' = "validate_monitor"
  /\ UNCHANGED <<auxVars, trayVars, dual_mode, bins, proc, ignores, trigger, interrupts, intrAt,
                 graces, audio, mixerRan, transcript, summary, no_summary, mixResult, transcribed, summarized, kind, recorder>>

\* lines 510-515: validate_audio(mic_path); AudioValidationError is fatal
ValidateMic ==
  /\ pc = "validate_mic"
  /\ \E out \in ValidateOutcomes :
       /\ validated' = [validated EXCEPT !["mic"] = out]
       /\ pc' = AfterValidate(out, "validate_monitor", "exit1")
  /\ UNCHANGED <<auxVars, trayVars, dual_mode, bins, proc, ignores, trigger, interrupts, intrAt,
                 graces, audio, mixerRan, transcript, summary, no_summary, mixResult, transcribed, summarized, kind, recorder>>

\* lines 517-524: validate_audio(monitor_path); on AudioValidationError copy
\* the mic capture to audio.wav and leave dual mode
ValidateMonitor ==
  /\ pc = "validate_monitor"
  /\ \E out \in ValidateOutcomes :
       /\ validated' = [validated EXCEPT !["monitor"] = out]
       /\ pc' = AfterValidate(out, "mix", "transcribe")
       /\ IF out = "AudioValidationError"
          THEN /\ audio' = "mic_copy"
               /\ dual_mode' = FALSE
          ELSE UNCHANGED <<audio, dual_mode>>
  /\ UNCHANGED <<auxVars, trayVars, bins, proc, ignores, trigger, interrupts, intrAt,
                 graces, mixerRan, transcript, summary, no_summary, mixResult, transcribed, summarized, kind, recorder>>

\* what the ffmpeg run of mix_audio can end as (lines 262-271)
MixOutcomes == {"ok", "nonzero", "missing", "timeout"}

\* mix_audio that leaves whatever ffmpeg wrote when ffmpeg fails
mix_audio_NoFallback(outcome) == IF outcome = "ok" THEN "mixed" ELSE "partial"

\* mix_audio (lines 246-275): the mixed file on exit status 0, otherwise a
\* copy of the mic capture
mix_audio(outcome) == IF outcome = "ok" THEN "mixed" ELSE "mic_copy"

\* lines 526-527
Mix ==
  /\ pc = "mix"
  /\ dual_mode
  /\ \E outcome \in MixOutcomes :
       /\ audio' = mix_audio(outcome)
       /\ mixerRan' = (outcome # "missing")
       /\ mixResult' = outcome
  /\ pc' = "transcribe"
  /\ UNCHANGED <<auxVars, trayVars, dual_mode, bins, proc, ignores, trigger, interrupts, intrAt,
                 graces, transcript, summary, no_summary, validated, transcribed, summarized, kind, recorder>>

\* lines 532-536: validate_audio(audio_path) of the single capture
ValidateSingle ==
  /\ pc = "validate_single"
  /\ \E out \in ValidateOutcomes :
       /\ validated' = [validated EXCEPT !["mic"] = out]
       /\ pc' = AfterValidate(out, "transcribe", "exit1")
  /\ UNCHANGED <<auxVars, trayVars, dual_mode, bins, proc, ignores, trigger, interrupts, intrAt,
                 graces, audio, mixerRan, transcript, summary, no_summary, mixResult, transcribed, summarized, kind, recorder>>

\* how transcribe_audio (lines 338-367) ends: it returns the text, it ends
\* in sys.exit(1) because faster-whisper is missing or because no text came
\* out, or the model raises
TranscribeEnds == {"text", "ImportError", "no_text", "raises"}

\* main writing transcript.txt and going on whatever transcribe_audio did
Transcribe_WritesAnyway ==
  /\ pc = "transcribe"
  /\ \E out \in TranscribeEnds : transcribed' = out
  /\ transcript' = TRUE
  /\ pc' = "summarize"
  /\ UNCHANGED <<auxVars, trayVars, dual_mode, bins, proc, ignores, trigger, interrupts, intrAt,
                 graces, audio, mixerRan, summary, no_summary, validated, mixResult,
                 summarized, kind, recorder>>

\* lines 538-542 with transcribe_audio (338-367): the transcript is written
\* only when transcribe_audio returns; sys.exit(1) and an exception end main
Transcribe ==
  /\ pc = "transcribe"
  /\ \E out \in TranscribeEnds :
       /\ transcribed' = out
       /\ CASE out = "text"   -> /\ transcript' = TRUE
                                  /\ pc' = "summarize"
            [] out = "raises" -> /\ transcript' = transcript
                                  /\ pc' = "crash"
            [] OTHER          -> /\ transcript' = transcript
                                  /\ pc' = "exit1"
  /\ UNCHANGED <<auxVars, trayVars, dual_mode, bins, proc, ignores, trigger, interrupts, intrAt,
                 graces, audio, mixerRan, summary, no_summary, validated, mixResult,
                 summarized, kind, recorder>>

\* how summarize_transcript (lines 370-389) ends: it returns the summary, or
\* it raises (the request fails, a status other than 200, an answer without
\* the expected fields)
SummaryEnds == {"text", "raises"}

\* main with a failed summary ending the run
Summarize_Fatal ==
  /\ pc = "summarize"
  /\ IF no_summary
     THEN /\ UNCHANGED <<summary, summarized>>
          /\ pc' = "done"
     ELSE \E out \in SummaryEnds :
            /\ summarized' = out
            /\ summary' = (out = "text")
            /\ pc' = IF out = "text" THEN "done" ELSE "exit1"
  /\ UNCHANGED <<auxVars, trayVars, dual_mode, bins, proc, ignores, trigger, interrupts, intrAt,
                 graces, audio, mixerRan, transcript, no_summary, validated, mixResult,
                 transcribed, kind, recorder>>

\* lines 544-559: the summary unless --no-summary; summary.md is written
\* when summarize_transcript returns, a failure is a warning (except
\* Exception, lines 550-552)
Summarize ==
  /\ pc = "summarize"
  /\ IF no_summary
     THEN UNCHANGED <<summary, summarized>>
     ELSE \E out \in SummaryEnds :
            /\ summarized' = out
            /\ summary' = (out = "text")
  /\ pc' = "done"
  /\ UNCHANGED <<auxVars, trayVars, dual_mode, bins, proc, ignores, trigger, interrupts, intrAt,
                 graces, audio, mixerRan, transcript, no_summary, validated, mixResult,
                 transcribed, kind, recorder>>

NextCli ==
  \/ \E p \in Procs : ProcExitsEarly(p)
  \/ \E p \in Procs : ProcObeysSigint(p)
  \/ DualPreflight
  \/ SpawnMic
  \/ SpawnMonitor
  \/ PollSeesExit
  \/ \E p \in Procs : StopSigint(p)
  \/ \E p \in Procs : StopWaitExited(p)
  \/ \E p \in Procs : StopWaitTimeout(p)
  \/ \E p \in Procs : StopKill(p)
  \/ JoinTimer
  \/ SinglePreflight
  \/ SingleSpawn
  \/ SingleWaitExited
  \/ SingleSigint
  \/ SingleWait2Exited
  \/ SingleFinally
  \/ Interrupt
  \/ ValidateMic
  \/ ValidateMonitor
  \/ Mix
  \/ ValidateSingle
  \/ Transcribe
  \/ Summarize

Init == InitCli

Next == NextCli

\* the command-line program
Spec == Init /\ [][Next]_vars

-----------------------------------------------------------------------------
(***************************************************************************)
(* Properties of the command-line program                                  *)
(***************************************************************************)

\* the dual capture got as far as starting both recorders
DualStarted == proc["monitor"] # "none"

\* the capture operation is over: it returned into main, or it raised
CaptureEnded == pc \in AfterCapturePcs \cup {"raised"}

\* C2: in dual capture, once a stop is triggered (operator interrupt or early
\* exit of a recorder) the stop operation always returns, and when it has
\* returned both capture processes are in a terminal state.
C2_StopAlwaysReturnsTerminal ==
  (DualStarted /\ trigger # "none") =>
     /\ pc # "raised"
     /\ pc \in AfterCapturePcs => \A p \in Procs : proc[p] \in Terminal

\* C3: the stop is issued to both capture processes concurrently, so at most
\* one grace period runs out before both are terminal.
C3_AtMostOneGracePeriod == graces <= 1

\* C4: in a dual-capture run validation (and everything after it) begins only
\* when both the mic and the monitor process are in a terminal state.
C4_ValidationAfterBothTerminal ==
  (DualStarted /\ pc \in AfterCapturePcs) => \A p \in Procs : proc[p] \in Terminal

\* C4 witness: validation is about to start after a stop in which the mic
\* recorder had to be killed and the monitor recorder exited
C4_Witness ==
  /\ pc = "validate_mic"
  /\ proc["mic"] = "Killed"
  /\ proc["monitor"] = "Stopped"

\* C5: every capture process that was started is in a terminal state when the
\* capture operation returns or raises, on every path that went through a
\* stop (normal stop, early exit, an interrupt during the stop).
C5_NoProcessAbandoned ==
  (CaptureEnded /\ trigger # "none") => \A p \in Procs : proc[p] \notin Alive

\* C6: when a spawn fails while starting the capture, the failure is
\* surfaced and no capture process is left running.
C6_NoPartialCapture ==
  (pc = "raised" /\ interrupts = 0) => \A p \in Procs : proc[p] \notin Alive

\* C7: an unexpected early exit of either recorder is handled as a stop of
\* both, and the run then proceeds to validation instead of failing.
C7_EarlyExitProceedsToValidation ==
  (DualStarted /\ trigger = "early_exit") =>
     /\ pc # "raised"
     /\ pc \in AfterCapturePcs => \A p \in Procs : proc[p] \in Terminal

------------------------------------------------------------------------\* C11: in a dual capture a failed mic validation ends the run: the monitor
\* is not validated, nothing is mixed, transcribed or summarized after it;
\* and mixing is reached only with a mic capture that passed validation.
C11_MicFailureAborts ==
  DualStarted =>
    /\ validated["mic"] = "AudioValidationError" =>
          /\ pc = "exit1"
          /\ validated["monitor"] = "none"
          /\ mixResult = "none" /\ ~mixerRan /\ audio = "none"
          /\ ~transcript /\ ~summary
    /\ (pc = "mix" \/ mixResult # "none") => validated["mic"] = "duration"

C11_Witness ==
  DualStarted /\ validated["mic"] = "AudioValidationError" /\ pc = "exit1"

\* C12: in a dual capture with a valid mic file, a monitor validation that
\* fails does not end the run: audio.wav is a copy of the mic capture, the
\* mixer is not run, and main goes on to transcription.
C12_MonitorFailureDegrades ==
  (DualStarted /\ validated["mic"] = "duration"
               /\ validated["monitor"] \notin {"none", "duration"}) =>
    /\ pc \in {"exit1", "crash"} => transcribed \notin {"none", "text"}
    /\ audio = "mic_copy"
    /\ mixResult = "none" /\ ~mixerRan

\* C13: with two valid captures every failure of the mixer (non-zero exit,
\* missing binary, timeout) leaves a copy of the mic capture in audio.wav
\* and main goes on to transcription; only a failed transcription ends the
\* run after it.
C13_MixerFailureFallsBack ==
  /\ mixResult # "none" =>
       /\ validated = [p \in Procs |-> "duration"]
       /\ pc \in {"transcribe", "summarize", "done", "exit1", "crash"}
       /\ pc \in {"exit1", "crash"} => transcribed \notin {"none", "text"}
  /\ mixResult \in {"nonzero", "missing", "timeout"} => audio = "mic_copy"
  /\ mixResult = "ok" => audio = "mixed"

C13_Witness == mixResult = "timeout" /\ audio = "mic_copy" /\ transcript

\* C21: when transcribe_audio does not return a text (it fails, or no text
\* comes out), main ends: transcript.txt is not written and the summary is
\* not attempted.
C21_TranscriptionFailureAborts ==
  /\ transcribed \notin {"none", "text"} =>
       /\ pc \in {"exit1", "crash"}
       /\ ~transcript
       /\ summarized = "none" /\ ~summary
  /\ transcript => transcribed = "text"
  /\ summarized # "none" => transcribed = "text"

C21_Witness == transcribed = "no_text" /\ pc = "exit1" /\ audio # "none"

\* C22: when summarize_transcript fails after a transcript was written,
\* main still runs to its normal end: transcript.txt is there, summary.md
\* is not.
C22_SummaryFailureNotFatal ==
  summarized = "raises" =>
    /\ pc = "done"
    /\ transcript
    /\ ~summary

C22_Witness == summarized = "raises" /\ pc = "done" /\ transcript /\ ~no_summary

\* C23: every capture process that records a monitor-kind endpoint was
\* spawned with parecord, whatever recorder the mic stream uses; and when
\* parecord is not installed a dual capture ends with its diagnostic while
\* no capture process has been spawned.
C23_MonitorKindUsesParecord ==
  /\ \A p \in Procs :
       (proc[p] # "none" /\ kind[p] = "monitor") => recorder[p] = MonitorRecorder
  /\ (dual_mode /\ MonitorRecorder \notin bins) =>
       /\ pc \in {"start", "exit1"}
       /\ \A p \in Procs : proc[p] = "none"

\* the stop of record_audio can no longer end: the main thread is in the
\* proc.wait() of line 186, which has no timeout, on a recorder that is
\* alive and ignores the interrupt it was sent
SingleStopHangs ==
  /\ ~dual_mode
  /\ pc = "s_wait2"
  /\ proc["mic"] \in Alive
  /\ "mic" \in ignores

\* C25: the stop of a single-stream capture always returns, with the
\* process in a terminal state, even when the recorder ignores the
\* interrupt: it is never left waiting without bound for a live process,
\* and once the capture has returned after an interrupt the process is
\* terminal.
C25_SingleStopAlwaysReturns ==
  /\ ~SingleStopHangs
  /\ (~dual_mode /\ trigger = "interrupt" /\ pc \in AfterCapturePcs) =>
       proc["mic"] \in Terminal

\* C26: _stop_proc applied to a capture process that has already exited is
\* a no-op: the steps of the stop leave the process's terminal state as it
\* is, no grace period runs out, the stop does not go to the kill and does
\* not raise, and it returns; a terminal state is never changed by any step.
C26_StopIsIdempotent ==
  [][\A p \in Procs :
       /\ proc[p] \in Terminal => proc'[p] = proc[p]
       /\ (/\ pc \in {StopPc(p, "sigint"), StopPc(p, "wait")}
           /\ proc[p] \in Terminal
           /\ interrupts' = interrupts) =>
            /\ graces' = graces
            /\ pc' \in {pc, StopPc(p, "wait"), AfterStop(p)}]_vars

\* C26 witness: both recorders ignore SIGINT and both exited on their own;
\* the two stops have run on them and returned without a grace period
C26_Witness ==
  /\ pc = "join_timer"
  /\ trigger = "early_exit"
  /\ ignores = Procs
  /\ \A p \in Procs : proc[p] = "Stopped"
  /\ graces = 0

\* the monitor stream of record_dual_audio alone: always parecord, and the
\* availability check comes before the first Popen
MonitorStreamUsesParecord ==
  /\ proc["monitor"] # "none" => recorder["monitor"] = MonitorRecorder
  /\ (dual_mode /\ MonitorRecorder \notin bins) =>
       /\ pc \in {"start", "exit1"}
       /\ \A p \in Procs : proc[p] = "none"

-----
(***************************************************************************)
(* Part II.  src/recmeet_tray.py                                           *)
(*                                                                         *)
(* The GTK main thread runs the menu handlers (_on_record, _on_stop,       *)
(* _on_quit) and the callbacks queued with GLib.idle_add, one at a time.   *)
(* Each Record starts a daemon thread running _recording_pipeline.  The    *)
(* body of recmeet.run_pipeline is not among the sources: its steps        *)
(* follow section 4.8 of the specification, stopping the recorders as      *)
(* _stop_proc of src/recmeet.py does.                                      *)
(***************************************************************************)

\* the command-line program is not part of a tray session
CliOff ==
  /\ pc = "off"
  /\ dual_mode = FALSE
  /\ bins = {}
  /\ proc = [p \in Procs |-> "none"]
  /\ ignores = {}
  /\ trigger = "none"
  /\ interrupts = 0
  /\ intrAt = "none"
  /\ graces = 0
  /\ audio = "none"
  /\ mixerRan = FALSE
  /\ transcript = FALSE
  /\ summary = FALSE
  /\ no_summary = FALSE
  /\ validated = [p \in Procs |-> "none"]
  /\ mixResult = "none"
  /\ transcribed = "none"
  /\ summarized = "none"
  /\ kind = [p \in Procs |-> "input"]
  /\ recorder = [p \in Procs |-> ""]

\* RecmeetTray.__init__ (lines 31-37)
InitTray ==
  /\ gtk = "main"
  /\ state = "idle"
  /\ stop_event = 0
  /\ worker_thread = 0
  /\ evset = [r \in RunIds |-> FALSE]
  /\ idleQ = <<>>
  /\ nruns = 0
  /\ wpc = [r \in RunIds |-> "unstarted"]
  /\ wev = [r \in RunIds |-> 0]
  /\ wproc = [r \in RunIds |-> [p \in Procs |-> "none"]]
  /\ stopSeen = "none"
  /\ CliOff
  /\ AuxOff

\* a callback handed to GLib.idle_add
Callback(fn, arg, r) == [fn |-> fn, arg |-> arg, run |-> r]

\* the tray state a queued callback sets: _set_state(arg) (lines 197-202),
\* _pipeline_done (275-277) and _pipeline_error (279-282) set "idle"
CallbackState(cb) == IF cb.fn = "_set_state" THEN cb.arg ELSE "idle"

\* worker threads that have been started and have not ended
WorkerEnded == {"finished", "dead"}
ActiveRuns == {r \in RunIds : wpc[r] \notin {"unstarted"} \cup WorkerEnded}

(***************************************************************************)
(* The GTK main thread                                                     *)
(***************************************************************************)

\* _on_record (lines 206-213)
OnRecord ==
  /\ gtk = "main"
  /\ nruns < MaxRuns
  /\ IF state # "idle"
     THEN UNCHANGED trayVars
     ELSE /\ state' = "recording"
          /\ stop_event' = nruns + 1
          /\ evset' = [evset EXCEPT ![nruns + 1] = FALSE]
          /\ worker_thread' = nruns + 1
          /\ nruns' = nruns + 1
          /\ wpc' = [wpc EXCEPT ![nruns + 1] = "load"]
          /\ UNCHANGED <<gtk, idleQ, wev, wproc, stopSeen>>
  /\ UNCHANGED <<auxVars, cliVars>>

\* _on_stop with the test of self.state left out
OnStop_NoStateGuard ==
  /\ gtk = "main"
  /\ IF stop_event # 0
     THEN /\ evset' = [evset EXCEPT ![stop_event] = TRUE]
          /\ stopSeen' = IF state = "recording" THEN stopSeen ELSE state
     ELSE /\ evset' = evset
          /\ stopSeen' = state
  /\ UNCHANGED <<gtk, state, stop_event, worker_thread, idleQ, nruns,
                 wpc, wev, wproc>>
  /\ UNCHANGED <<auxVars, cliVars>>

\* _on_stop (lines 215-217)
OnStop ==
  /\ gtk = "main"
  /\ IF state = "recording" /\ stop_event # 0
     THEN /\ evset' = [evset EXCEPT ![stop_event] = TRUE]
          /\ stopSeen' = stopSeen
     ELSE /\ evset' = evset
          /\ stopSeen' = state
  /\ UNCHANGED <<gtk, state, stop_event, worker_thread, idleQ, nruns,
                 wpc, wev, wproc>>
  /\ UNCHANGED <<auxVars, cliVars>>

\* _on_quit (lines 339-344) up to the join: the flag is raised only while
\* recording, and then the main thread blocks in worker_thread.join(10)
OnQuit ==
  /\ gtk = "main"
  /\ IF state = "recording" /\ stop_event # 0
     THEN /\ evset' = [evset EXCEPT ![stop_event] = TRUE]
          /\ gtk' = IF worker_thread # 0 THEN "joining" ELSE "quit"
     ELSE /\ evset' = evset
          /\ gtk' = "quit"
  /\ UNCHANGED <<state, stop_event, worker_thread, idleQ, nruns,
                 wpc, wev, wproc, stopSeen>>
  /\ UNCHANGED <<auxVars, cliVars>>

\* lines 343-344: join returns (the thread ended, or the 10 s ran out) and
\* Gtk.main_quit() ends the application, its daemon threads with it
JoinReturns ==
  /\ gtk = "joining"
  /\ gtk' = "quit"
  /\ UNCHANGED <<state, stop_event, worker_thread, evset, idleQ, nruns,
                 wpc, wev, wproc, stopSeen>>
  /\ UNCHANGED <<auxVars, cliVars>>

\* the main loop runs the oldest queued callback: _set_state (197-202),
\* _pipeline_done (275-277) or _pipeline_error (279-282)
Dispatch ==
  /\ gtk = "main"
  /\ idleQ # <<>>
  /\ state' = CallbackState(Head(idleQ))
  /\ idleQ' = Tail(idleQ)
  /\ UNCHANGED <<gtk, stop_event, worker_thread, evset, nruns,
                 wpc, wev, wproc, stopSeen>>
  /\ UNCHANGED <<auxVars, cliVars>>

(***************************************************************************)
(* A worker thread: _recording_pipeline (lines 219-273)                    *)
(***************************************************************************)

\* the thread of run r is running (daemon threads end with the application)
Runs(r, at) == gtk # "quit" /\ wpc[r] = at

\* except Exception (lines 272-273) and the early return of lines 238-240:
\* queue _pipeline_error and end the thread
Fail(r) ==
  /\ idleQ' = Append(idleQ, Callback("_pipeline_error", "", r))
  /\ wpc' = [wpc EXCEPT ![r] = "finished"]

\* sys.exit(1) inside the thread: SystemExit is not an Exception, so the
\* handler of lines 272-273 does not run and the thread ends silently
SysExit(r) ==
  /\ idleQ' = idleQ
  /\ wpc' = [wpc EXCEPT ![r] = "dead"]

LoadOutcomes == {"ok", "no_mic", "sys_exit"}

\* lines 221-243: load_config, detect_sources (which ends in sys.exit(1)
\* when pactl is missing or fails, recmeet.py lines 84-89), the mic check
WLoad(r) ==
  /\ Runs(r, "load")
  /\ \E out \in LoadOutcomes :
       CASE out = "sys_exit" -> SysExit(r)
         [] out = "no_mic"   -> Fail(r)
         [] OTHER -> /\ wpc' = [wpc EXCEPT ![r] = "mkdir"]
                     /\ idleQ' = idleQ
  /\ UNCHANGED <<gtk, state, stop_event, worker_thread, evset, nruns,
                 wev, wproc, stopSeen>>
  /\ UNCHANGED <<auxVars, cliVars>>

MkdirOutcomes == {"ok", "too_many", "oserror"}

\* lines 249-251: create_output_dir (recmeet.py 392-409) ends in sys.exit(1)
\* when 99 suffixes are taken; mkdir may raise OSError
WMkdir(r) ==
  /\ Runs(r, "mkdir")
  /\ \E out \in MkdirOutcomes :
       CASE out = "too_many" -> SysExit(r)
         [] out = "oserror"  -> Fail(r)
         [] OTHER -> /\ wpc' = [wpc EXCEPT ![r] = "call"]
                     /\ idleQ' = idleQ
  /\ UNCHANGED <<gtk, state, stop_event, worker_thread, evset, nruns,
                 wev, wproc, stopSeen>>
  /\ UNCHANGED <<auxVars, cliVars>>

\* the streams a run captures: the mic alone when monitor_source is None
\* (lines 235-243), else both
CaptureModes == {{"mic"}, Procs}

\* lines 259-268: the arguments of run_pipeline are evaluated, among them
\* stop_event=self.stop_event as the tray holds it at this moment; then
\* run_pipeline starts the capture (a spawn failure is an exception)
WCall(r) ==
  /\ Runs(r, "call")
  /\ wev' = [wev EXCEPT ![r] = stop_event]
  /\ \E ok \in BOOLEAN :
       IF ok
       THEN /\ \E streams \in CaptureModes :
                 wproc' = [wproc EXCEPT ![r] =
                            [p \in Procs |-> IF p \in streams
                                             THEN "Running" ELSE "none"]]
            /\ wpc' = [wpc EXCEPT ![r] = "recording"]
            /\ idleQ' = idleQ
       ELSE /\ wproc' = wproc
            /\ Fail(r)
  /\ UNCHANGED <<gtk, state, stop_event, worker_thread, evset, nruns,
                 stopSeen>>
  /\ UNCHANGED <<auxVars, cliVars>>

\* a recorder of run r exits on its own while recording
WProcExitsEarly(r, p) ==
  /\ Runs(r, "recording")
  /\ wproc[r][p] = "Running"
  /\ wproc' = [wproc EXCEPT ![r][p] = "Stopped"]
  /\ UNCHANGED <<gtk, state, stop_event, worker_thread, evset, idleQ, nruns,
                 wpc, wev, stopSeen>>
  /\ UNCHANGED <<auxVars, cliVars>>

\* run_pipeline: block until the flag is set or a recorder exited
WPoll(r) ==
  /\ Runs(r, "recording")
  /\ evset[wev[r]] \/ \E p \in Procs : wproc[r][p] \in Terminal
  /\ wpc' = [wpc EXCEPT ![r] = "stop_mic"]
  /\ UNCHANGED <<gtk, state, stop_event, worker_thread, evset, idleQ, nruns,
                 wev, wproc, stopSeen>>
  /\ UNCHANGED <<auxVars, cliVars>>

\* the step after the stop of stream p
WAfterStop(r, p) ==
  IF p = "mic" /\ wproc[r]["monitor"] # "none" THEN "stop_monitor"
  ELSE "validate"

\* _stop_proc (recmeet.py 222-229) as one step: SIGINT, and the process has
\* exited when it returns, within the grace period or killed after it (the
\* tray model does not tell the two apart)
WStopProc(r, p) ==
  /\ Runs(r, IF p = "mic" THEN "stop_mic" ELSE "stop_monitor")
  /\ wproc' = IF wproc[r][p] = "Running"
              THEN [wproc EXCEPT ![r][p] = "Stopped"] ELSE wproc
  /\ wpc' = [wpc EXCEPT ![r] = WAfterStop(r, p)]
  /\ UNCHANGED <<gtk, state, stop_event, worker_thread, evset, idleQ, nruns,
                 wev, stopSeen>>
  /\ UNCHANGED <<auxVars, cliVars>>

\* run_pipeline: validation (mic fatal, monitor degrades) and mixing, then
\* on_phase("transcribing"), which queues _set_state("processing")
\* (lines 253-255)
WValidate(r) ==
  /\ Runs(r, "validate")
  /\ \E ok \in BOOLEAN :
       IF ok
       THEN /\ idleQ' = Append(idleQ, Callback("_set_state", "processing", r))
            /\ wpc' = [wpc EXCEPT ![r] = "transcribe"]
       ELSE Fail(r)
  /\ UNCHANGED <<gtk, state, stop_event, worker_thread, evset, nruns,
                 wev, wproc, stopSeen>>
  /\ UNCHANGED <<auxVars, cliVars>>

TranscribeOutcomes == {"ok", "raises", "sys_exit"}

\* run_pipeline: transcription, then summarization (whose failure is not
\* fatal), then on_phase("complete"), which queues _set_state("idle")
\* (lines 256-257); transcribe_audio (recmeet.py 338-367) ends in
\* sys.exit(1) when faster-whisper is missing or no text comes out
WTranscribe(r) ==
  /\ Runs(r, "transcribe")
  /\ \E out \in TranscribeOutcomes :
       CASE out = "sys_exit" -> SysExit(r)
         [] out = "raises"   -> Fail(r)
         [] OTHER -> /\ wpc' = [wpc EXCEPT ![r] = "complete"]
                     /\ idleQ' = Append(idleQ, Callback("_set_state", "idle", r))
  /\ UNCHANGED <<gtk, state, stop_event, worker_thread, evset, nruns,
                 wev, wproc, stopSeen>>
  /\ UNCHANGED <<auxVars, cliVars>>

\* line 270: run_pipeline has returned; queue _pipeline_done, thread ends
WReturn(r) ==
  /\ Runs(r, "complete")
  /\ idleQ' = Append(idleQ, Callback("_pipeline_done", "", r))
  /\ wpc' = [wpc EXCEPT ![r] = "finished"]
  /\ UNCHANGED <<gtk, state, stop_event, worker_thread, evset, nruns,
                 wev, wproc, stopSeen>>
  /\ UNCHANGED <<auxVars, cliVars>>

NextTray ==
  \/ OnRecord
  \/ OnStop
  \/ OnQuit
  \/ JoinReturns
  \/ Dispatch
  \/ \E r \in RunIds : WLoad(r)
  \/ \E r \in RunIds : WMkdir(r)
  \/ \E r \in RunIds : WCall(r)
  \/ \E r \in RunIds, p \in Procs : WProcExitsEarly(r, p)
  \/ \E r \in RunIds : WPoll(r)
  \/ \E r \in RunIds, p \in Procs : WStopProc(r, p)
  \/ \E r \in RunIds : WValidate(r)
  \/ \E r \in RunIds : WTranscribe(r)
  \/ \E r \in RunIds : WReturn(r)

\* the tray applet
SpecTray == InitTray /\ [][NextTray]_vars


(***************************************************************************)
(* Properties of the tray applet                                           *)
(***************************************************************************)

\* the application is running, every started worker thread has ended and
\* the main loop has run every callback handed to it: nothing is left that
\* could still change the tray state but a new request of the user
Quiescent ==
  /\ gtk = "main"
  /\ idleQ = <<>>
  /\ ActiveRuns = {}

\* C1: at most one pipeline run (worker thread) is active at any time,
\* under every interleaving of Record requests and the worker's phase,
\* completion and error callbacks.
C1_AtMostOneActiveRun == Cardinality(ActiveRuns) <= 1

\* C8: once the cancellation flag of a run has been raised while the tray
\* was recording, the tray does not come to rest anywhere but in idle, and
\* no capture process of a run is left running or half stopped.
C8_CancellationReachesIdle ==
  (Quiescent /\ \E r \in RunIds : evset[r]) =>
     /\ state = "idle"
     /\ \A r \in RunIds, p \in Procs : wproc[r][p] \notin Alive

\* C9: every run that has started returns the tray to idle, whether it
\* succeeds or fails in any phase: when nothing is left to happen, the
\* state is idle, so that a new run can be started.
C9_EveryRunReturnsToIdle == (Quiescent /\ nruns > 0) => state = "idle"

C28_RecordingWorkerSeenAsRecording ==
  \A r \in RunIds : wpc[r] = "recording" => state = "recording"

\* C29: when Quit is chosen while the tray is recording the cancellation
\* flag of the run is raised, and when the application has left the main
\* loop no capture process of any run is still alive.
C29_QuitLeavesNoRecorder ==
  (gtk = "quit" /\ state = "recording") =>
    /\ stop_event # 0 /\ evset[stop_event]
    /\ \A r \in RunIds, p \in Procs : wproc[r][p] \notin Alive

-----------------------------------------------------------------------------
(***************************************************************************)
(* Part III.  create_output_dir (src/recmeet.py, lines 392-409)            *)
(*                                                                         *)
(* Several runs create their session directory under the same base_dir     *)
(* within the same minute.  A directory name is the number of its suffix:  *)
(* 1 is the bare timestamp, i stands for <timestamp>_i.                    *)
(***************************************************************************)

\* range(2, 100): the suffixes tried
FirstSuffix == 2
LastSuffix == 99

\* the for loop of lines 398-402 from suffix i on: the first candidate that
\* does not exist, 0 when the loop runs out (the else clause)
RECURSIVE ScanSuffixes(_, _)
ScanSuffixes(existing, i) ==
  IF i > LastSuffix THEN 0
  ELSE IF i \notin existing THEN i
  ELSE ScanSuffixes(existing, i + 1)

\* the suffix loop that starts one suffix late
Candidate_SkipsFirstSuffix(existing) ==
  IF 1 \notin existing THEN 1 ELSE ScanSuffixes(existing, FirstSuffix + 1)

\* lines 394-405: the directory create_output_dir decides on, 0 when it
\* ends in sys.exit(1)
Candidate(existing) ==
  IF 1 \notin existing THEN 1 ELSE ScanSuffixes(existing, FirstSuffix)

\* the directories found at the start: the names up to some suffix, but for
\* a few of the first ones
InitDirs ==
  {(1 .. k) \ H : k \in 0 .. LastSuffix, H \in SUBSET (1 .. MaxHoles)}

InitSession ==
  /\ dirs \in InitDirs
  /\ spc = [c \in Callers |-> "call"]
  /\ out_dir = [c \in Callers |-> 0]
  /\ before = [c \in Callers |-> {}]
  /\ CliOff
  /\ TrayOff
  /\ CfgOff
  /\ ValOff
  /\ ResOff

\* lines 394-405: the exists() tests up to the choice of out_dir, or
\* sys.exit(1) when every name is taken
ChooseDir(c) ==
  /\ spc[c] = "call"
  /\ before' = [before EXCEPT ![c] = dirs]
  /\ out_dir' = [out_dir EXCEPT ![c] = Candidate(dirs)]
  /\ spc' = [spc EXCEPT ![c] = IF Candidate(dirs) = 0 THEN "too_many" ELSE "mkdir"]
  /\ UNCHANGED <<dirs, cliVars, trayVars, valVars, resVars, cfgVars>>

\* out_dir.mkdir with exist_ok=True
Mkdir_ExistOk(c) ==
  /\ spc[c] = "mkdir"
  /\ dirs' = dirs \cup {out_dir[c]}
  /\ spc' = [spc EXCEPT ![c] = "returned"]
  /\ UNCHANGED <<out_dir, before, cliVars, trayVars, valVars, resVars, cfgVars>>

\* lines 407-408: out_dir.mkdir(parents=True) raises FileExistsError when
\* the directory exists by now, else creates it and out_dir is returned
Mkdir(c) ==
  /\ spc[c] = "mkdir"
  /\ IF out_dir[c] \in dirs
     THEN /\ spc' = [spc EXCEPT ![c] = "FileExistsError"]
          /\ dirs' = dirs
     ELSE /\ spc' = [spc EXCEPT ![c] = "returned"]
          /\ dirs' = dirs \cup {out_dir[c]}
  /\ UNCHANGED <<out_dir, before, cliVars, trayVars, valVars, resVars, cfgVars>>

NextSession ==
  \/ \E c \in Callers : ChooseDir(c)
  \/ \E c \in Callers : Mkdir(c)

\* concurrent calls of create_output_dir
SpecSession == InitSession /\ [][NextSession]_vars

\* C14: the directory create_output_dir returns did not exist when it was
\* called, no two callers are returned the same directory, and no step
\* removes or re-creates a directory that exists.
C14_SessionDirIsFresh ==
  \A c \in Callers :
     spc[c] = "returned" =>
       /\ out_dir[c] \notin before[c]
       /\ out_dir[c] \in dirs
       /\ before[c] \subseteq dirs
       /\ \A c2 \in Callers \ {c} :
            spc[c2] = "returned" => out_dir[c2] # out_dir[c]

\* two callers chose the same free name; one created it, the other failed
C14_Witness ==
  /\ spc[1] = "returned" /\ spc[2] = "FileExistsError"
  /\ out_dir[1] = out_dir[2]

\* the smallest name of 1 .. LastSuffix that is not in existing; 0 if none
FirstFree(existing) ==
  IF (1 .. LastSuffix) \subseteq existing THEN 0
  ELSE CHOOSE i \in (1 .. LastSuffix) \ existing :
         \A j \in (1 .. LastSuffix) \ existing : i <= j

\* C15: create_output_dir decides on the bare timestamp if it is free, else
\* on the first free suffix _2 .. _99; when all of them exist it ends in the
\* fatal error and has created nothing.
C15_FirstFreeName ==
  \A c \in Callers :
     /\ spc[c] \in {"mkdir", "returned", "FileExistsError"} =>
          /\ out_dir[c] = FirstFree(before[c])
          /\ out_dir[c] # 0
     /\ spc[c] = "too_many" =>
          /\ (1 .. LastSuffix) \subseteq before[c]
          /\ out_dir[c] = 0
     /\ (1 .. LastSuffix) \subseteq before[c] => spc[c] \in {"call", "too_many"}

\* a caller that found only _2 free and created it, and a caller that then
\* found every name taken
C15_Witness ==
  /\ spc[1] = "returned" /\ out_dir[1] = 2 /\ 1 \in before[1]
  /\ spc[2] = "too_many" /\ dirs = 1 .. LastSuffix


-----------------------------------------------------------------------------
(***************************************************************************)
(* Part IV.  validate_audio (src/recmeet.py, lines 278-329)                *)
(*                                                                         *)
(* A duration is a fraction <<n, d>> of seconds (n / d, d > 0), so that    *)
(* frames / rate and data_size / 32000 are exact.                          *)
(***************************************************************************)

\* min_duration=1.0 (line 278); the WAV header of 44 bytes (line 322);
\* 16 kHz, 16 bit, mono (line 325)
min_duration == 1
WavHeaderBytes == 44
BytesPerSecond == 32000

\* duration < min_duration (lines 297, 313, 326)
TooShort(d) == d[1] < min_duration * d[2]

NoDuration == <<0, 1>>

\* what wave.open and the with block of lines 292-294 make of the file: the
\* header is read ("parsed", with getnframes and getframerate), or wave.Error
\* is raised (no RIFF/WAVE id, no fmt or data chunk), or EOFError (the file
\* ends inside the RIFF header or the fmt chunk)
Headers ==
  [kind : {"parsed"}, frames : {0, 8000, 16000, 32000}, rate : {0, 16000}]
    \cup [kind : {"wave.Error", "EOFError"}, frames : {0}, rate : {0}]

\* what the ffprobe run of lines 306-312 ends as: FileNotFoundError,
\* TimeoutExpired, a non-zero exit, blank output, output float() rejects
\* (ValueError), or a number (here in milliseconds)
Probes ==
  [kind : {"number"}, ms : {0, 999, 1000, 2000}]
    \cup [kind : {"FileNotFoundError", "TimeoutExpired", "nonzero", "blank",
                  "ValueError"}, ms : {0}]

FileSizes ==
  {0, 5, 20, WavHeaderBytes, WavHeaderBytes + 16000}
    \cup {WavHeaderBytes + BytesPerSecond * t : t \in 1 .. MaxSeconds}

\* the files validate_audio can be handed: a missing or empty file has no
\* header, a file of fewer than 8 bytes ends inside the RIFF header, and a
\* file that ends before the data has no header that parses
Files ==
  {f \in [exists : BOOLEAN, size : FileSizes, header : Headers, probe : Probes] :
     /\ ~f.exists => (f.size = 0 /\ f.probe.kind = "nonzero")
     /\ f.size = 0 => (f.header.kind = "EOFError" /\ f.probe.kind = "nonzero")
     /\ f.size < 8 => f.header.kind = "EOFError"
     /\ f.size < WavHeaderBytes => f.header.kind # "parsed"}

InitValidate ==
  /\ vfile \in Files
  /\ vpc = "exists"
  /\ vtried = <<>>
  /\ vres = NotEnded
  /\ CliOff
  /\ TrayOff
  /\ CfgOff
  /\ SessOff
  /\ ResOff

\* return duration
Returns(d) == [kind |-> "duration", msg |-> "", d |-> d]
\* raise AudioValidationError(msg)
Raises(msg) == [kind |-> "AudioValidationError", msg |-> msg, d |-> NoDuration]
\* an exception validate_audio does not catch
Escapes(exc) == [kind |-> exc, msg |-> "", d |-> NoDuration]

\* the test against min_duration that follows each stage
Verdict(d) == IF TooShort(d) THEN Raises("too short") ELSE Returns(d)

\* validate_audio ends with outcome r
VEnd(r) ==
  /\ vres' = r
  /\ vpc' = "end"

\* validate_audio without the test of lines 287-288
VExists_NoEmptyCheck ==
  /\ vpc = "exists"
  /\ vpc' = "header"
  /\ UNCHANGED <<vfile, vtried, vres, cliVars, trayVars, sessVars, resVars, cfgVars>>

\* lines 286-288
VExists ==
  /\ vpc = "exists"
  /\ IF ~vfile.exists \/ vfile.size = 0
     THEN VEnd(Raises("missing or empty"))
     ELSE /\ vpc' = "header"
          /\ vres' = vres
  /\ UNCHANGED <<vfile, vtried, cliVars, trayVars, sessVars, resVars, cfgVars>>

\* lines 290-302: wave.open; only wave.Error is caught
VHeader ==
  /\ vpc = "header"
  /\ vtried' = Append(vtried, "header")
  /\ LET h == vfile.header IN
       CASE h.kind = "EOFError" -> VEnd(Escapes("EOFError"))
         [] h.kind = "parsed" /\ h.rate > 0 /\ h.frames > 0 ->
              VEnd(Verdict(<<h.frames, h.rate>>))
         [] OTHER -> /\ vpc' = "probe"
                     /\ vres' = vres
  /\ UNCHANGED <<vfile, cliVars, trayVars, sessVars, resVars, cfgVars>>

\* the ffprobe stage with a too short duration passed on to the next stage
VProbe_Rescues ==
  /\ vpc = "probe"
  /\ vtried' = Append(vtried, "probe")
  /\ LET q == vfile.probe IN
       IF q.kind = "number" /\ ~TooShort(<<q.ms, 1000>>)
       THEN VEnd(Returns(<<q.ms, 1000>>))
       ELSE /\ vpc' = "size"
            /\ vres' = vres
  /\ UNCHANGED <<vfile, cliVars, trayVars, sessVars, resVars, cfgVars>>

\* lines 304-318: ffprobe; a duration only on exit status 0 with output
\* that float() accepts
VProbe ==
  /\ vpc = "probe"
  /\ vtried' = Append(vtried, "probe")
  /\ LET q == vfile.probe IN
       IF q.kind = "number"
       THEN VEnd(Verdict(<<q.ms, 1000>>))
       ELSE /\ vpc' = "size"
            /\ vres' = vres
  /\ UNCHANGED <<vfile, cliVars, trayVars, sessVars, resVars, cfgVars>>

\* the size estimate without the header subtracted
VSize_CountsHeader ==
  /\ vpc = "size"
  /\ vtried' = Append(vtried, "size")
  /\ VEnd(Verdict(<<vfile.size, BytesPerSecond>>))
  /\ UNCHANGED <<vfile, cliVars, trayVars, sessVars, resVars, cfgVars>>

\* lines 320-329: the estimate from the file size
VSize ==
  /\ vpc = "size"
  /\ vtried' = Append(vtried, "size")
  /\ LET data_size == vfile.size - WavHeaderBytes IN
       IF data_size <= 0
       THEN VEnd(Raises("no data"))
       ELSE VEnd(Verdict(<<data_size, BytesPerSecond>>))
  /\ UNCHANGED <<vfile, cliVars, trayVars, sessVars, resVars, cfgVars>>

NextValidate ==
  \/ VExists
  \/ VHeader
  \/ VProbe
  \/ VSize

\* one call of validate_audio
SpecValidate == InitValidate /\ [][NextValidate]_vars

\* stage st can tell a duration for file f, and the duration it tells
StageResolves(f, st) ==
  CASE st = "header" -> f.header.kind = "parsed" /\ f.header.frames > 0
                                                 /\ f.header.rate > 0
    [] st = "probe"  -> f.probe.kind = "number"
    [] OTHER         -> f.size > WavHeaderBytes

StageDuration(f, st) ==
  CASE st = "header" -> <<f.header.frames, f.header.rate>>
    [] st = "probe"  -> <<f.probe.ms, 1000>>
    [] OTHER         -> <<f.size - WavHeaderBytes, BytesPerSecond>>

\* C16: whichever stage tells a duration d, validate_audio ends there: it
\* raises "too short" when d < min_duration and returns d otherwise; no
\* later stage is tried after it, and no returned duration is below
\* min_duration.
C16_SameVerdictAtEveryStage ==
  /\ \A i \in 1 .. Len(vtried) :
       StageResolves(vfile, vtried[i]) =>
         /\ i = Len(vtried)
         /\ vpc = "end"
         /\ vres = IF StageDuration(vfile, vtried[i])[1]
                        < min_duration * StageDuration(vfile, vtried[i])[2]
                   THEN Raises("too short")
                   ELSE Returns(StageDuration(vfile, vtried[i]))
  /\ vres.kind = "duration" =>
       /\ vres.d[1] >= min_duration * vres.d[2]
       /\ StageResolves(vfile, vtried[Len(vtried)])

\* ffprobe tells 0.999 s for a file whose size would give one second or
\* more: the file is rejected
C16_Witness ==
  /\ vpc = "end"
  /\ vtried = <<"header", "probe">>
  /\ vfile.probe.ms = 999
  /\ vfile.size >= WavHeaderBytes + BytesPerSecond
  /\ vres = Raises("too short")

\* C17: the stages are tried in order and only as far as needed: ffprobe
\* only when the header gave no positive frame count and rate, the size
\* estimate only when ffprobe gave no duration either, and no stage at all
\* for a missing or empty file, which is rejected at once.
C17_CascadeIsOrdered ==
  /\ \E n \in 0 .. 3 : vtried = SubSeq(<<"header", "probe", "size">>, 1, n)
  /\ Len(vtried) >= 2 => ~StageResolves(vfile, "header")
  /\ Len(vtried) >= 3 => ~StageResolves(vfile, "probe")
  /\ (vpc # "off" /\ (~vfile.exists \/ vfile.size = 0)) =>
       /\ vtried = <<>>
       /\ vpc = "end" => vres = Raises("missing or empty")

\* all three stages were tried
C17_Witness == vpc = "end" /\ vtried = <<"header", "probe", "size">>

-----------------------------------------------------------------------------
(***************************************************************************)
(* Part V.  The resolution of the mic and monitor source of a run:         *)
(* detect_sources (src/recmeet.py, lines 99-117), _resolve_monitor_source  *)
(* (429-456), main (470-486) and the tray's _recording_pipeline            *)
(* (src/recmeet_tray.py, lines 225-243).                                   *)
(*                                                                         *)
(* A source name is the sequence of its words, which the name joins with   *)
(* dots: <<"X", "monitor">> is X.monitor.  <<>> stands for None and "".    *)
(***************************************************************************)

\* re.IGNORECASE
Lower(w) ==
  CASE w = "X" -> "x"
    [] w = "A" -> "a"
    [] OTHER   -> w

\* regex.search(name) for a pattern that is one word
search(pattern, name) ==
  \E i \in 1 .. Len(name) : Lower(name[i]) = Lower(pattern)

\* name.endswith(".monitor")
endswith_monitor(name) == Len(name) >= 2 /\ name[Len(name)] = "monitor"

\* `current or name` with the later match taking the place of the earlier
Selected_LastWins(current, name) == name

\* `current or name` (lines 113, 115)
Selected(current, name) == IF current # <<>> THEN current ELSE name

\* the for loop of lines 111-115 from position i on
RECURSIVE DetectLoop(_, _, _, _, _)
DetectLoop(pattern, all_sources, i, mic, monitor) ==
  IF i > Len(all_sources) THEN [mic |-> mic, monitor |-> monitor]
  ELSE LET name == all_sources[i] IN
       IF ~search(pattern, name)
       THEN DetectLoop(pattern, all_sources, i + 1, mic, monitor)
       ELSE IF endswith_monitor(name)
       THEN DetectLoop(pattern, all_sources, i + 1, mic, Selected(monitor, name))
       ELSE DetectLoop(pattern, all_sources, i + 1, Selected(mic, name), monitor)

\* detect_sources (lines 99-117)
detect_sources(pattern, all_sources) ==
  LET found == DetectLoop(pattern, all_sources, 1, <<>>, <<>>) IN
  [called |-> TRUE, mic |-> found.mic, monitor |-> found.monitor,
   all_sources |-> all_sources]

\* the for loop of lines 444-446: the first name that ends in .monitor
RECURSIVE FirstMonitor(_, _)
FirstMonitor(all_sources, i) ==
  IF i > Len(all_sources) THEN <<>>
  ELSE IF endswith_monitor(all_sources[i]) THEN all_sources[i]
  ELSE FirstMonitor(all_sources, i + 1)

\* _resolve_monitor_source (lines 429-456); det is the result of an earlier
\* detect_sources, if there was one
resolve_monitor_source(args, det) ==
  IF args.mic_only THEN <<>>
  ELSE IF args.monitor # <<>> /\ args.monitor \notin {<<"auto">>, <<"default">>}
  THEN args.monitor
  ELSE IF args.monitor = <<"default">>
  THEN FirstMonitor(IF det.called THEN det.all_sources ELSE args.sources, 1)
  ELSE IF det.called THEN det.monitor
  ELSE detect_sources(args.pattern, args.sources).monitor

SourceNames ==
  {<<"X">>, <<"x">>, <<"A">>, <<"X", "monitor">>, <<"A", "monitor">>}

Patterns == {"x", "A", "z"}

\* what pactl lists: up to MaxSources names, none twice
SourceLists ==
  UNION {{l \in [1 .. n -> SourceNames] :
            \A i, j \in 1 .. n : l[i] = l[j] => i = j} : n \in 0 .. MaxSources}

\* --source / mic_source and --monitor / monitor_source as given
GivenMics == {<<>>, <<"A">>}
GivenMonitors == {<<>>, <<"auto">>, <<"default">>, <<"A", "monitor">>}

\* the runs: the command line passes "auto" for a bare --monitor, the tray's
\* configuration has no such value
ResolveInputs ==
  {a \in [front : {"cli", "tray"}, source : GivenMics, monitor : GivenMonitors,
          mic_only : BOOLEAN, pattern : Patterns, sources : SourceLists] :
     a.front = "tray" => a.monitor # <<"auto">>}

InitResolve ==
  /\ rin \in ResolveInputs
  /\ rpc = "start"
  /\ detected = NotDetected
  /\ mic_source = <<>>
  /\ monitor_source = <<>>
  /\ CliOff
  /\ TrayOff
  /\ CfgOff
  /\ SessOff
  /\ ValOff

\* main, lines 470-483: --source, or the mic detect_sources finds, or
\* sys.exit(1)
CliMic ==
  /\ rpc = "start"
  /\ rin.front = "cli"
  /\ IF rin.source # <<>>
     THEN /\ mic_source' = rin.source
          /\ detected' = detected
          /\ rpc' = "monitor"
     ELSE /\ detected' = detect_sources(rin.pattern, rin.sources)
          /\ mic_source' = detected'.mic
          /\ rpc' = IF detected'.mic = <<>> THEN "exit1" ELSE "monitor"
  /\ UNCHANGED <<rin, monitor_source, cliVars, trayVars, sessVars, valVars, cfgVars>>

\* main, lines 485-486
CliMonitor ==
  /\ rpc = "monitor"
  /\ monitor_source' = resolve_monitor_source(rin, detected)
  /\ rpc' = "capture"
  /\ UNCHANGED <<rin, detected, mic_source, cliVars, trayVars, sessVars, valVars, cfgVars>>

\* _recording_pipeline, lines 225-236
TrayDetect ==
  /\ rpc = "start"
  /\ rin.front = "tray"
  /\ IF rin.source = <<>> \/ rin.monitor = <<>>
     THEN /\ detected' = detect_sources(rin.pattern, rin.sources)
          /\ mic_source' = IF rin.source = <<>> THEN detected'.mic ELSE rin.source
          /\ monitor_source' = IF rin.monitor = <<>> /\ ~rin.mic_only
                               THEN detected'.monitor ELSE rin.monitor
     ELSE /\ detected' = detected
          /\ mic_source' = rin.source
          /\ monitor_source' = rin.monitor
  /\ rpc' = "check"
  /\ UNCHANGED <<rin, cliVars, trayVars, sessVars, valVars, cfgVars>>

\* _recording_pipeline, lines 238-243
TrayCheck ==
  /\ rpc = "check"
  /\ IF mic_source = <<>>
     THEN /\ rpc' = "error"
          /\ monitor_source' = monitor_source
     ELSE /\ rpc' = "capture"
          /\ monitor_source' = IF rin.mic_only THEN <<>> ELSE monitor_source
  /\ UNCHANGED <<rin, detected, mic_source, cliVars, trayVars, sessVars, valVars, cfgVars>>

NextResolve ==
  \/ CliMic
  \/ CliMonitor
  \/ TrayDetect
  \/ TrayCheck

\* the resolution of the sources of one run
SpecResolve == InitResolve /\ [][NextResolve]_vars

\* the first name of the list that matches the pattern and is (is not) of
\* monitor kind; <<>> if there is none
FirstMatch(pattern, all_sources, monitorKind) ==
  LET hits == {i \in 1 .. Len(all_sources) :
                 /\ search(pattern, all_sources[i])
                 /\ endswith_monitor(all_sources[i]) = monitorKind}
  IN IF hits = {} THEN <<>>
     ELSE all_sources[CHOOSE i \in hits : \A j \in hits : i <= j]

\* C19: detect_sources selects, per kind, the first source in enumeration
\* order whose name matches the pattern, case ignored; a source that does
\* not match is never selected, and all the sources are returned.
C19_FirstMatchPerKind ==
  detected.called =>
    /\ detected.mic = FirstMatch(rin.pattern, rin.sources, FALSE)
    /\ detected.monitor = FirstMatch(rin.pattern, rin.sources, TRUE)
    /\ detected.all_sources = rin.sources
    /\ \A n \in {detected.mic, detected.monitor} \ {<<>>} :
         search(rin.pattern, n)

\* the sources X.monitor, A, X and a pattern that matches X
C19_Witness ==
  /\ rin.sources = <<(<<"X", "monitor">>), (<<"A">>), (<<"X">>)>>
  /\ rin.pattern = "x"
  /\ detected.called
  /\ detected.mic = <<"X">>
  /\ detected.monitor = <<"X", "monitor">>

\* the first source of monitor kind; <<>> if there is none
FirstOfMonitorKind(all_sources) ==
  LET mons == {i \in 1 .. Len(all_sources) : endswith_monitor(all_sources[i])}
  IN IF mons = {} THEN <<>>
     ELSE all_sources[CHOOSE i \in mons : \A j \in mons : i <= j]

\* the mic and the monitor the priority gives: the name given; else, for
\* the monitor, what "default" stands for; else the pattern's match
PriorityMic(a) ==
  IF a.source # <<>> THEN a.source
  ELSE FirstMatch(a.pattern, a.sources, FALSE)

PriorityMonitor(a) ==
  IF a.monitor \notin {<<>>, <<"auto">>, <<"default">>} THEN a.monitor
  ELSE IF a.monitor = <<"default">> THEN FirstOfMonitorKind(a.sources)
  ELSE FirstMatch(a.pattern, a.sources, TRUE)

\* C20: the run captures from the mic and the monitor the priority gives
\* (a monitor unless the run is mic-only); a run for which no monitor
\* resolves captures the mic alone, and a run for which no mic resolves
\* ends before the capture.
C20_ResolutionPriority ==
  /\ rpc = "capture" =>
       /\ mic_source = PriorityMic(rin)
       /\ mic_source # <<>>
       /\ monitor_source = IF rin.mic_only THEN <<>> ELSE PriorityMonitor(rin)
  /\ rpc \in {"exit1", "error"} => PriorityMic(rin) = <<>>
  /\ PriorityMic(rin) = <<>> => rpc \in {"start", "check", "exit1", "error"}

\* C27: for a file that exists and is not empty validate_audio ends with a
\* duration or with AudioValidationError, never with another exception; a
\* header that does not parse and a probe that fails pass the file on to the
\* next stage.
C27_OnlyTwoOutcomes ==
  (vpc = "end" /\ vfile.exists /\ vfile.size > 0) =>
    /\ vres.kind \in {"duration", "AudioValidationError"}
    /\ vfile.header.kind # "parsed" => Len(vtried) >= 2 /\ vtried[2] = "probe"
    /\ (vfile.header.kind # "parsed" /\ vfile.probe.kind # "number") =>
         Len(vtried) = 3 /\ vtried[3] = "size"

-----------------------------------------------------------------------------
(***************************************************************************)
(* Part VI.  The configuration of one run of the tray                      *)
(* (src/recmeet_tray.py, src/prototype/recmeet_config.py).                 *)
(*                                                                         *)
(* The worker thread runs _recording_pipeline while the GTK main thread    *)
(* runs the menu callbacks; both use the dictionary self.config refers to. *)
(***************************************************************************)

\* the settings the menu can change (_on_mic_selected, _on_monitor_selected,
\* _on_model_selected, _on_mic_only_toggled, _on_no_summary_toggled)
MenuKeys == {"mic_source", "monitor_source", "model", "mic_only", "no_summary"}

\* RecmeetTray.__init__ (line 33): self.config = load_config(); the worker
\* thread of a run has been started and has not yet run
InitConfig ==
  /\ cfg_file = [k \in Keys |-> "old"]
  /\ config = cfg_file
  /\ snapshot = cfg_file
  /\ params = [k \in Keys |-> "unread"]
  /\ cpc = 0
  /\ mpc = "none"
  /\ edits = 0
  /\ late = {}
  /\ CliOff
  /\ TrayOff
  /\ SessOff
  /\ ValOff
  /\ ResOff

\* line 223: self.config = load_config(); the attribute is bound to a new
\* dictionary made from the file
CfgLoad ==
  /\ cpc = 0
  /\ config' = cfg_file
  /\ snapshot' = cfg_file
  /\ cpc' = 1
  /\ UNCHANGED <<cfg_file, params, mpc, edits, late,
                 cliVars, trayVars, sessVars, valVars, resVars>>

\* lines 226-229, 246-247, 250 and 263: each setting is taken with
\* self.config.get(...) where the code needs it; the model is read in the
\* argument list of run_pipeline, after detect_sources and create_output_dir
CfgRead ==
  /\ cpc \in 1 .. Len(ReadOrder)
  /\ params' = [params EXCEPT ![ReadOrder[cpc]] = config[ReadOrder[cpc]]]
  /\ cpc' = cpc + 1
  /\ UNCHANGED <<cfg_file, config, snapshot, mpc, edits, late,
                 cliVars, trayVars, sessVars, valVars, resVars>>

\* lines 286-307, first statement of a menu callback:
\* self.config[key] = value, written into the dictionary in use
MenuStore ==
  /\ mpc = "none"
  /\ edits < MaxEdits
  /\ \E k \in MenuKeys, v \in Vals :
       /\ config' = [config EXCEPT ![k] = v]
       /\ late' = IF cpc >= 1 THEN late \cup {k} ELSE late
  /\ mpc' = "save"
  /\ edits' = edits + 1
  /\ UNCHANGED <<cfg_file, snapshot, params, cpc,
                 cliVars, trayVars, sessVars, valVars, resVars>>

\* lines 286-307, second statement: save_config(self.config) (lines 39-54)
\* writes the whole dictionary to the file
MenuSave ==
  /\ mpc = "save"
  /\ cfg_file' = config
  /\ mpc' = "none"
  /\ UNCHANGED <<config, snapshot, params, cpc, edits, late,
                 cliVars, trayVars, sessVars, valVars, resVars>>

\* the file is edited outside the applet (Edit Config opens an editor)
FileEdit ==
  /\ edits < MaxEdits
  /\ \E k \in Keys, v \in Vals : cfg_file' = [cfg_file EXCEPT ![k] = v]
  /\ edits' = edits + 1
  /\ UNCHANGED <<config, snapshot, params, cpc, mpc, late,
                 cliVars, trayVars, sessVars, valVars, resVars>>

NextConfig ==
  \/ CfgLoad
  \/ CfgRead
  \/ MenuStore
  \/ MenuSave
  \/ FileEdit

\* the configuration of one run, with the edits made while it runs
SpecConfig == InitConfig /\ [][NextConfig]_vars

\* C24: every parameter the run has taken is the value that setting had in
\* the configuration read at the start of the run, whatever the menu
\* callbacks stored since.
C24_ParamsFromOneSnapshot ==
  \A k \in Keys : params[k] # "unread" => params[k] = snapshot[k]

\* the same for edits of the file alone: without a menu callback since
\* load_config, every parameter is the snapshot's
FileEditsDoNotReachRun ==
  late = {} => C24_ParamsFromOneSnapshot

=============================================================================
